---- MODULE Spec2Model ----
(***************************************************************************)
(* Model of src/utils/use-multi-file-auth-state-prisma.ts: the session     *)
(* state store of a messaging client.  Credentials live in the relational  *)
(* table `session`; keyed entries live in the cache hash of the session or *)
(* in one file per entry under the session folder.  Every backend request  *)
(* is one atomic step; the steps of concurrent calls interleave freely.    *)
(***************************************************************************)
EXTENDS Naturals, Sequences, FiniteSets, TLC

(***************************************************************************)
(* Bounds of the model.                                                    *)
(***************************************************************************)
MaxCalls == 3
MaxSeqCalls == 4
MaxFaults == 1
MaxEntries == 2
MaxNameLen == 2
MaxValCalls == 3
MaxEnvCalls == 3
MaxOpCalls == 2
MaxTwoCalls == 4

(***************************************************************************)
(* JavaScript values.  Every value is a record of one shape, [k, n, c]:    *)
(* k the kind, n a number payload, c the children.  A string whose content *)
(* is the JSON text of the tree j is Txt(j): JSON.stringify is injective   *)
(* on JSON trees, so the text is identified by the tree it denotes.        *)
(***************************************************************************)
Mk(kind, num, kids) == [k |-> kind, n |-> num, c |-> kids]
Null == Mk("null", 0, <<>>)
Num(i) == Mk("num", i, <<>>)
Str(i) == Mk("str", i, <<>>)        \* Str(0) is ""; Str(i > 0) is no JSON text
Buf(bytes) == Mk("buf", 0, bytes)   \* a Buffer holding the bytes
Obj(fields) == Mk("obj", 0, fields) \* a plain object, its properties in order
Arr(elems) == Mk("arr", 0, elems)
B64(bytes) == Mk("b64", 0, bytes)   \* the base64 string of the bytes
BufJ(data) == Mk("bufjson", 0, <<data>>) \* the object {type: 'Buffer', data}
Txt(j) == Mk("text", 0, <<j>>)

\* JavaScript truthiness: null, 0 and "" are falsy, objects and other strings truthy.
Truthy(v) ==
  CASE v.k = "null" -> FALSE
    [] v.k = "num" -> v.n # 0
    [] v.k = "str" -> v.n # 0
    [] OTHER -> TRUE

\* Buffer.prototype.toJSON, applied by JSON.stringify before any replacer.
RECURSIVE toJSON(_)
toJSON(v) ==
  CASE v.k = "buf" -> BufJ(Arr(v.c))
    [] v.k \in {"obj", "arr"} -> Mk(v.k, 0, [i \in 1..Len(v.c) |-> toJSON(v.c[i])])
    [] OTHER -> v

\* BufferJSON.replacer over the tree: {type: 'Buffer', data: [bytes]} becomes
\* {type: 'Buffer', data: <base64 of the bytes>}.
RECURSIVE replacer(_)
replacer(v) ==
  CASE v.k = "buf" -> BufJ(B64(v.c))
    [] v.k = "bufjson" /\ v.c[1].k = "arr" -> BufJ(B64(v.c[1].c))
    [] v.k \in {"obj", "arr"} -> Mk(v.k, 0, [i \in 1..Len(v.c) |-> replacer(v.c[i])])
    [] OTHER -> v

\* BufferJSON.reviver over the tree: an object tagged type 'Buffer' becomes a
\* Buffer, from base64 when data is a string and from the byte array otherwise.
RECURSIVE reviver(_)
reviver(j) ==
  CASE j.k = "bufjson" -> Buf(j.c[1].c)
    [] j.k \in {"obj", "arr"} -> Mk(j.k, 0, [i \in 1..Len(j.c) |-> reviver(j.c[i])])
    [] OTHER -> j

JSONstringify(v) == Txt(toJSON(v))
JSONstringifyR(v) == Txt(replacer(v))
\* JSON.parse throws a SyntaxError on a string that is no JSON text.
CanParse(s) == s.k = "text"
JSONparse(s) == s.c[1]
JSONparseR(s) == reviver(s.c[1])

\* proto.Message.AppStateSyncKeyData.fromObject(object): a message built from
\* the object's fields, keyData first and fingerprint second.  A fingerprint
\* that is present and no object is a TypeError ("object expected").
fromObjectThrows(object) ==
  object.k = "obj" /\ Len(object.c) >= 2 /\ object.c[2].k \in {"num", "str", "text", "b64"}
fromObject(object) == Mk("msg", 0, IF object.k = "obj" THEN object.c ELSE <<>>)

(***************************************************************************)
(* Entry names are strings of characters.                                  *)
(***************************************************************************)
RECURSIVE replaceAll(_, _, _)
replaceAll(s, ch, rep) ==
  IF s = <<>> THEN <<>>
  ELSE (IF Head(s) = ch THEN rep ELSE <<Head(s)>>) \o replaceAll(Tail(s), ch, rep)

undefinedName == <<"u", "n", "d", "e", "f", "i", "n", "e", "d">>

fixFileName(file) ==
  IF file = <<>> THEN undefinedName
  ELSE replaceAll(replaceAll(file, "/", <<"_", "_">>), ":", <<"-">>)

credsKey == <<"c", "r", "e", "d", "s">>
preKey == <<"p", "r", "e", "-", "k", "e", "y">>
appStateSyncKey ==
  <<"a", "p", "p", "-", "s", "t", "a", "t", "e", "-", "s", "y", "n", "c", "-", "k", "e", "y">>
\* `${category}-${id}`
entryKey(category, id) == category \o <<"-">> \o id

\* Session ids are opaque strings: 's1', 's2', and 's1/.'.
sessionS1 == <<"s", "1">>
sessionS2 == <<"s", "2">>
sessionS1Dot == <<"s", "1", "/", ".">>
Sessions == {sessionS1, sessionS2, sessionS1Dot}
Ids == {<<"3">>, <<"a", ":", "b">>, <<"a", "-", "b">>}
EntryKeys == {entryKey(category, id) : category \in {preKey, appStateSyncKey}, id \in Ids}

\* What a missing hash field or a missing file holds.
Absent == Mk("absent", 0, <<>>)

\* The segments of a path, split at "/".
RECURSIVE segments(_, _, _)
segments(s, cur, out) ==
  IF s = <<>> THEN Append(out, cur)
  ELSE IF Head(s) = "/" THEN segments(Tail(s), <<>>, Append(out, cur))
  ELSE segments(Tail(s), Append(cur, Head(s)), out)

\* path.normalize over the segments: empty and "." segments are dropped,
\* ".." drops the segment before it.
RECURSIVE normalize(_, _)
normalize(parts, out) ==
  IF parts = <<>> THEN out
  ELSE LET p == Head(parts)
       IN IF p = <<>> \/ p = <<".">> THEN normalize(Tail(parts), out)
          ELSE IF p = <<".", ".">> /\ out # <<>> /\ out[Len(out)] # <<".", ".">>
          THEN normalize(Tail(parts), SubSeq(out, 1, Len(out) - 1))
          ELSE normalize(Tail(parts), Append(out, p))

\* path.join(INSTANCE_DIR, name): the normalized path below INSTANCE_DIR
pathJoin(name) == normalize(segments(name, <<>>, <<>>), <<>>)

\* const localFolder = path.join(INSTANCE_DIR, sessionId)
localFolder(sessionId) == pathJoin(sessionId)
\* const localFile = (key) => path.join(localFolder, `${fixFileName(key)}.json`)
localFile(sessionId, key) == <<localFolder(sessionId), fixFileName(key)>>
Paths == {localFile(s, k) : s \in Sessions, k \in EntryKeys}

VARIABLES
  env,      \* process.env.CACHE_REDIS_ENABLED === 'true'
  session,  \* the rows of the relational table `session`
  hash,     \* the cache: hash[sessionId][field]
  folders,  \* the session folders that exist
  files,    \* files[path]: the text of the file, or Absent
  calls,    \* every call made so far, its position and the tasks it started
  faults,   \* how many backend requests have failed so far
  active,   \* how many calls the callers keep in flight at once
  fixIn,    \* the entry names handed to fixFileName
  fixOut    \* and the file names it returned

vars == <<env, session, hash, folders, files, calls, faults, active, fixIn, fixOut>>
stores == <<session, hash, folders, files>>
fixVars == <<active, fixIn, fixOut>>

(***************************************************************************)
(* The relational table: sessionId is a unique column (findUnique, update  *)
(* and delete address a row by it), so create refuses a second row.        *)
(***************************************************************************)
rowsOf(tbl, sessionId) == {r \in tbl : r.sessionId = sessionId}

\* prismaRepository.session.findUnique({ where: { sessionId } })
findUnique(tbl, sessionId) ==
  IF rowsOf(tbl, sessionId) = {} THEN Null
  ELSE (CHOOSE r \in rowsOf(tbl, sessionId) : TRUE).creds

\* A create on a column that is not unique.
createUnchecked(tbl, data) == [ok |-> TRUE, tbl |-> tbl \cup {data}]

\* prismaRepository.session.create({ data }): fails on a taken sessionId
create(tbl, data) ==
  IF rowsOf(tbl, data.sessionId) # {} THEN [ok |-> FALSE, tbl |-> tbl]
  ELSE [ok |-> TRUE, tbl |-> tbl \cup {data}]

\* prismaRepository.session.update({ where: { sessionId }, data: { creds } })
update(tbl, sessionId, creds) ==
  IF rowsOf(tbl, sessionId) = {} THEN [ok |-> FALSE, tbl |-> tbl]
  ELSE [ok |-> TRUE,
        tbl |-> (tbl \ rowsOf(tbl, sessionId))
                  \cup {[sessionId |-> sessionId, creds |-> creds]}]

\* prismaRepository.session.delete({ where: { sessionId } })
delete(tbl, sessionId) ==
  IF rowsOf(tbl, sessionId) = {} THEN [ok |-> FALSE, tbl |-> tbl]
  ELSE [ok |-> TRUE, tbl |-> tbl \ rowsOf(tbl, sessionId)]

\* fs.mkdir(localFolder) without recursive: EEXIST when the folder exists.
fsMkdirNotRecursive(fo, folder) ==
  [ok |-> folder \notin fo, folders |-> fo \cup {folder}]

\* fs.mkdir(localFolder, { recursive: true }): no error when the folder exists
fsMkdir(fo, folder) == [ok |-> TRUE, folders |-> fo \cup {folder}]

(***************************************************************************)
(* Calls and the tasks they start.  A task is one invocation of readData,  *)
(* writeData, removeData or saveKey, waiting at its next backend request.  *)
(***************************************************************************)
IdleCall ==
  [op |-> "idle", sid |-> <<>>, st |-> "idle", pc |-> "", creds |-> Null,
   tasks |-> <<>>, prior |-> {}, fac |-> 0, type |-> <<>>]

\* const isRedisEnabled = () => process.env.CACHE_REDIS_ENABLED === 'true'
isRedisEnabled(e) == e

\* The synchronous part of a task, up to its first backend request.
newTask(fn, key, val, e) ==
  [fn |-> fn, key |-> key, val |-> val, st |-> "pending", out |-> Null, br |-> "",
   flt |-> FALSE,
   pc |-> CASE fn = "saveKey" -> "keyExists"
            [] fn = "writeData" ->
                 IF key = credsKey THEN "keyExists"
                 ELSE IF isRedisEnabled(e) THEN "hSet" ELSE "writeFile"
            [] fn = "readData" ->
                 IF key = credsKey THEN "getAuthKey"
                 ELSE IF isRedisEnabled(e) THEN "hGet" ELSE "fileExists"
            [] fn = "removeData" ->
                 IF key = credsKey THEN "deleteAuthKey"
                 ELSE IF isRedisEnabled(e) THEN "hDelete" ELSE "unlink"]

\* initAuthCreds(): fresh random key material, never the same twice.
initAuthCreds(c) == Obj(<<Buf(<<Num(c)>>)>>)
\* The value a keys.set call gives its i-th entry.
entryValue(c, i) == Obj(<<Buf(<<Num(c), Num(i)>>)>>)

AllDone(call) == \A i \in DOMAIN call.tasks : call.tasks[i].st # "pending"
AnyErr(call) == \E i \in DOMAIN call.tasks : call.tasks[i].st = "err"
Finished(call) == call.st \in {"ok", "err"} /\ AllDone(call)

\* A join that waits for every task and never rejects, as Promise.allSettled.
promiseAllSettled(call) ==
  IF call.st = "run" /\ AllDone(call) THEN [call EXCEPT !.st = "ok"] ELSE call

\* await Promise.all(tasks): rejects with the first rejection, resolves when
\* every task has resolved.
promiseAll(call) ==
  IF call.st # "run" THEN call
  ELSE IF AnyErr(call) THEN [call EXCEPT !.st = "err"]
  ELSE IF AllDone(call) THEN [call EXCEPT !.st = "ok"]
  ELSE call

\* What a call does when one of its tasks has settled.
continue(call, c, e) ==
  CASE call.op = "init" /\ call.pc = "load" ->
         IF Truthy(call.tasks[1].out)
         THEN [call EXCEPT !.creds = call.tasks[1].out, !.pc = "done", !.st = "ok"]
         ELSE [call EXCEPT !.creds = initAuthCreds(c), !.pc = "save",
                           !.tasks = Append(@, newTask("writeData", credsKey,
                                                       initAuthCreds(c), e))]
    [] call.op = "init" /\ call.pc = "save" ->
         [call EXCEPT !.pc = "done", !.st = "ok"]
    [] call.op \in {"saveCreds", "saveKey", "deleteAuthKey"} ->
         [call EXCEPT !.st = IF AnyErr(call) THEN "err" ELSE "ok"]
    [] call.op \in {"get", "set"} -> promiseAll(call)

(***************************************************************************)
(* Steps.  c is the call, i the task, f whether the backend request fails. *)
(***************************************************************************)
At(c, i, pc) ==
  /\ c \in DOMAIN calls
  /\ i \in DOMAIN calls[c].tasks
  /\ calls[c].tasks[i].st = "pending"
  /\ calls[c].tasks[i].pc = pc

Fault(f) ==
  /\ f => faults < MaxFaults
  /\ faults' = IF f THEN faults + 1 ELSE faults

\* The task moves on to its next backend request.
Goto(c, i, pc, f) ==
  calls' = [calls EXCEPT ![c].tasks[i].pc = pc, ![c].tasks[i].flt = @ \/ f]

\* The rest of the callback keys.get maps over its ids, once readData has
\* returned: a truthy value of type 'app-state-sync-key' goes through
\* fromObject, outside any try, so that its TypeError rejects the callback.
idCallback(call, t) ==
  IF call.op = "get" /\ call.type = appStateSyncKey /\ t.st = "ok" /\ Truthy(t.out)
  THEN (IF fromObjectThrows(t.out) THEN [t EXCEPT !.st = "err", !.br = "TypeError"]
        ELSE [t EXCEPT !.out = fromObject(t.out)])
  ELSE t

\* The task settles (resolves with out, or rejects) and its call continues.
Settle(c, i, st, out, br) ==
  calls' = [calls EXCEPT ![c] =
              continue([@ EXCEPT !.tasks[i] =
                          idCallback(calls[c],
                            [@ EXCEPT !.st = st, !.out = out, !.br = br, !.pc = "done",
                                      !.flt = @ \/ br = "fault"])],
                       c, env)]

\* saveKey's argument: writeData hands it dataString, a caller its own value.
keyJson(t) == IF t.fn = "writeData" THEN JSONstringifyR(t.val) ELSE t.val

\* keyExists with its answer negated.
keyExistsInverted(c, i, f) ==
  /\ At(c, i, "keyExists") /\ Fault(f)
  /\ Goto(c, i, IF ~f /\ findUnique(session, calls[c].sid) # Null
                THEN "create" ELSE "update", f)
  /\ UNCHANGED <<env, stores, fixVars>>

\* keyExists: true iff a row is found; an error counts as not found.
keyExists(c, i, f) ==
  /\ At(c, i, "keyExists") /\ Fault(f)
  /\ Goto(c, i, IF ~f /\ findUnique(session, calls[c].sid) # Null
                THEN "update" ELSE "create", f)
  /\ UNCHANGED <<env, stores, fixVars>>

\* saveKey, no row seen: create one; any error is logged and null returned.
saveKeyCreate(c, i, f) ==
  /\ At(c, i, "create") /\ Fault(f)
  /\ LET data == [sessionId |-> calls[c].sid,
                  creds |-> JSONstringify(keyJson(calls[c].tasks[i]))]
         r == create(session, data)
     IN IF f THEN /\ Settle(c, i, "ok", Null, "fault")
                  /\ UNCHANGED session
        ELSE /\ session' = r.tbl
             /\ Settle(c, i, "ok", IF r.ok THEN data.creds ELSE Null,
                       IF r.ok THEN "created" ELSE "notUnique")
  /\ UNCHANGED <<env, hash, folders, files, fixVars>>

\* saveKey, a row seen: update it; any error is logged and null returned.
saveKeyUpdate(c, i, f) ==
  /\ At(c, i, "update") /\ Fault(f)
  /\ LET creds == JSONstringify(keyJson(calls[c].tasks[i]))
         r == update(session, calls[c].sid, creds)
     IN IF f THEN /\ Settle(c, i, "ok", Null, "fault")
                  /\ UNCHANGED session
        ELSE /\ session' = r.tbl
             /\ Settle(c, i, "ok", IF r.ok THEN creds ELSE Null,
                       IF r.ok THEN "updated" ELSE "notFound")
  /\ UNCHANGED <<env, hash, folders, files, fixVars>>

\* What getAuthKey returns from the table: JSON.parse(auth.creds), or null.
loaded(tbl, sessionId) ==
  LET auth == findUnique(tbl, sessionId)
  IN IF auth # Null /\ CanParse(auth) THEN JSONparse(auth) ELSE Null

\* readData('creds') -> getAuthKey: errors are logged and null returned.
getAuthKey(c, i, f) ==
  /\ At(c, i, "getAuthKey") /\ Fault(f)
  /\ Settle(c, i, "ok", IF f THEN Null ELSE loaded(session, calls[c].sid),
            IF f THEN "fault" ELSE "")
  /\ UNCHANGED <<env, stores, fixVars>>

\* A deleteAuthKey without its try and catch: the error reaches the caller.
deleteAuthKeyRaising(c, i, f) ==
  /\ At(c, i, "deleteAuthKey") /\ Fault(f)
  /\ LET r == delete(session, calls[c].sid)
     IN IF f \/ ~r.ok THEN /\ Settle(c, i, "err", Null, IF f THEN "fault" ELSE "notFound")
                           /\ UNCHANGED session
        ELSE /\ session' = r.tbl
             /\ Settle(c, i, "ok", Null, "deleted")
  /\ UNCHANGED <<env, hash, folders, files, fixVars>>

\* removeData('creds') -> deleteAuthKey: errors are logged and swallowed.
deleteAuthKey(c, i, f) ==
  /\ At(c, i, "deleteAuthKey") /\ Fault(f)
  /\ LET r == delete(session, calls[c].sid)
     IN IF f THEN /\ Settle(c, i, "ok", Null, "fault")
                  /\ UNCHANGED session
        ELSE /\ session' = r.tbl
             /\ Settle(c, i, "ok", Null, IF r.ok THEN "deleted" ELSE "notFound")
  /\ UNCHANGED <<env, hash, folders, files, fixVars>>

(***************************************************************************)
(* The cache collaborator, a hash per namespace.  It stores a value by its *)
(* structure (its plain JSON tree), so a Buffer comes back as the object   *)
(* {type: 'Buffer', data: [bytes]}.                                        *)
(***************************************************************************)
cacheHSet(h, ns, field, value) == [h EXCEPT ![ns][field] = toJSON(value)]
cacheHGet(h, ns, field) == IF h[ns][field] = Absent THEN Null ELSE h[ns][field]
cacheHDelete(h, ns, field) ==
  [deleted |-> h[ns][field] # Absent, hash |-> [h EXCEPT ![ns][field] = Absent]]

\* writeData, cache mode: return await cache.hSet(sessionId, key, data)
hSet(c, i, f) ==
  /\ At(c, i, "hSet") /\ Fault(f)
  /\ LET t == calls[c].tasks[i]
     IN IF f THEN /\ Settle(c, i, "err", Null, "fault")
                  /\ UNCHANGED hash
        ELSE /\ hash' = cacheHSet(hash, calls[c].sid, t.key, t.val)
             /\ Settle(c, i, "ok", Null, "hSet")
  /\ UNCHANGED <<env, session, folders, files, fixVars>>

\* readData, cache mode: a falsy data reads as null, any other is re-encoded
\* and decoded with the reviver; errors are logged and null returned.
hGet(c, i, f) ==
  /\ At(c, i, "hGet") /\ Fault(f)
  /\ LET data == cacheHGet(hash, calls[c].sid, calls[c].tasks[i].key)
     IN Settle(c, i, "ok",
               IF ~f /\ Truthy(data) THEN JSONparseR(JSONstringify(data)) ELSE Null,
               IF f THEN "fault" ELSE "hGet")
  /\ UNCHANGED <<env, stores, fixVars>>

\* A removeData that returns what hDelete reported and raises nothing.
hDeleteLenient(c, i, f) ==
  /\ At(c, i, "hDelete") /\ Fault(f)
  /\ LET r == cacheHDelete(hash, calls[c].sid, calls[c].tasks[i].key)
     IN IF f THEN /\ Settle(c, i, "err", Null, "fault")
                  /\ UNCHANGED hash
        ELSE /\ hash' = r.hash
             /\ Settle(c, i, "ok", Null, IF r.deleted THEN "hDelete" ELSE "notDeleted")
  /\ UNCHANGED <<env, session, folders, files, fixVars>>

\* removeData, cache mode: a false hDelete is raised as an error.
hDelete(c, i, f) ==
  /\ At(c, i, "hDelete") /\ Fault(f)
  /\ LET r == cacheHDelete(hash, calls[c].sid, calls[c].tasks[i].key)
     IN IF f THEN /\ Settle(c, i, "err", Null, "fault")
                  /\ UNCHANGED hash
        ELSE /\ hash' = r.hash
             /\ Settle(c, i, IF r.deleted THEN "ok" ELSE "err", Null,
                       IF r.deleted THEN "hDelete" ELSE "notDeleted")
  /\ UNCHANGED <<env, session, folders, files, fixVars>>

(***************************************************************************)
(* The filesystem: one file per entry under the session folder.            *)
(***************************************************************************)
\* writeData, filesystem mode: await fs.writeFile(localFile(key), dataString)
writeFile(c, i, f) ==
  /\ At(c, i, "writeFile") /\ Fault(f)
  /\ LET t == calls[c].tasks[i]
         file == localFile(calls[c].sid, t.key)
     IN IF f \/ localFolder(calls[c].sid) \notin folders
        THEN /\ Settle(c, i, "err", Null, IF f THEN "fault" ELSE "ENOENT")
             /\ UNCHANGED files
        ELSE /\ files' = [files EXCEPT ![file] = JSONstringifyR(t.val)]
             /\ Settle(c, i, "ok", Null, "writeFile")
  /\ UNCHANGED <<env, session, hash, folders, fixVars>>

\* readData, filesystem mode: if (!(await fileExists(localFile(key)))) return null
fileExists(c, i, f) ==
  /\ At(c, i, "fileExists") /\ Fault(f)
  /\ IF ~f /\ files[localFile(calls[c].sid, calls[c].tasks[i].key)] # Absent
     THEN Goto(c, i, "readFile", f)
     ELSE Settle(c, i, "ok", Null, IF f THEN "fault" ELSE "noFile")
  /\ UNCHANGED <<env, stores, fixVars>>

\* readData, filesystem mode: JSON.parse(rawData, BufferJSON.reviver); errors
\* are logged and null returned.
readFile(c, i, f) ==
  /\ At(c, i, "readFile") /\ Fault(f)
  /\ LET rawData == files[localFile(calls[c].sid, calls[c].tasks[i].key)]
     IN IF ~f /\ rawData # Absent /\ CanParse(rawData)
        THEN Settle(c, i, "ok", JSONparseR(rawData), "readFile")
        ELSE Settle(c, i, "ok", Null, IF f THEN "fault" ELSE "ENOENT")
  /\ UNCHANGED <<env, stores, fixVars>>

\* A removal that passes over a missing file, as fs.rm with force does.
unlinkForce(c, i, f) ==
  /\ At(c, i, "unlink") /\ Fault(f)
  /\ LET file == localFile(calls[c].sid, calls[c].tasks[i].key)
     IN IF f
        THEN /\ Settle(c, i, "err", Null, "fault")
             /\ UNCHANGED files
        ELSE /\ files' = [files EXCEPT ![file] = Absent]
             /\ Settle(c, i, "ok", Null,
                       IF files[file] = Absent THEN "ENOENT" ELSE "unlink")
  /\ UNCHANGED <<env, session, hash, folders, fixVars>>

\* removeData, filesystem mode: await fs.unlink(localFile(key)); a missing
\* file is an error, logged and raised again.
unlink(c, i, f) ==
  /\ At(c, i, "unlink") /\ Fault(f)
  /\ LET file == localFile(calls[c].sid, calls[c].tasks[i].key)
     IN IF f \/ files[file] = Absent
        THEN /\ Settle(c, i, "err", Null, IF f THEN "fault" ELSE "ENOENT")
             /\ UNCHANGED files
        ELSE /\ files' = [files EXCEPT ![file] = Absent]
             /\ Settle(c, i, "ok", Null, "unlink")
  /\ UNCHANGED <<env, session, hash, folders, fixVars>>

(***************************************************************************)
(* Calls: useMultiFileAuthStatePrisma (init), the facade's keys.get,       *)
(* keys.set and saveCreds, and the exported saveKey.                       *)
(***************************************************************************)
IdSeq == <<<<"3">>, <<"a", ":", "b">>, <<"a", "-", "b">>>>
IdSets == {S \in SUBSET (1..Len(IdSeq)) : S # {} /\ Cardinality(S) <= MaxEntries}
SeqOf(S) == SelectSeq([n \in 1..Len(IdSeq) |-> n], LAMBDA n : n \in S)

CanStart(c) ==
  /\ c \in DOMAIN calls
  /\ calls[c].op = "idle"
  /\ IF c = 1 THEN TRUE ELSE calls[c - 1].op # "idle"
  /\ Cardinality({d \in DOMAIN calls : calls[d].op # "idle" /\ ~Finished(calls[d])}) < active

Begin(c, op, sid, fac, pc, tasks) ==
  calls' = [calls EXCEPT ![c] =
              [op |-> op, sid |-> sid, st |-> "run", pc |-> pc, creds |-> Null,
               tasks |-> tasks, fac |-> fac, type |-> <<>>,
               prior |-> {d \in DOMAIN calls : Finished(calls[d])}]]

\* The start of keys.get(type, ids): the call keeps its type.
BeginGet(c, sid, fac, type, tasks) ==
  calls' = [calls EXCEPT ![c] =
              [op |-> "get", sid |-> sid, st |-> "run", pc |-> "all", creds |-> Null,
               tasks |-> tasks, fac |-> fac, type |-> type,
               prior |-> {d \in DOMAIN calls : Finished(calls[d])}]]

Ready(fa) == fa \in DOMAIN calls /\ calls[fa].op = "init" /\ calls[fa].st = "ok"

\* useMultiFileAuthStatePrisma(sessionId, cache), up to await fs.mkdir
StartInit(c, sessionId) ==
  /\ CanStart(c)
  /\ Begin(c, "init", sessionId, 0, "mkdir", <<>>)
  /\ UNCHANGED <<env, stores, faults, fixVars>>

\* await fs.mkdir(localFolder, { recursive: true }); an error rejects the
\* call, otherwise it goes on to let creds = await readData('creds')
mkdir(c, f) ==
  /\ c \in DOMAIN calls /\ calls[c].st = "run" /\ calls[c].pc = "mkdir"
  /\ Fault(f)
  /\ LET r == fsMkdir(folders, localFolder(calls[c].sid))
     IN IF f \/ ~r.ok
        THEN /\ calls' = [calls EXCEPT ![c].st = "err",
                                        ![c].pc = IF f THEN "fault" ELSE "EEXIST"]
             /\ UNCHANGED folders
        ELSE /\ folders' = r.folders
             /\ calls' = [calls EXCEPT ![c].pc = "load",
                            ![c].tasks = <<newTask("readData", credsKey, Null, env)>>]
  /\ UNCHANGED <<env, session, hash, files, fixVars>>

\* keys.get(type, ids): one readData per id, joined by Promise.all
StartGet(c, fa, ids) ==
  /\ CanStart(c) /\ Ready(fa)
  /\ BeginGet(c, calls[fa].sid, fa, preKey,
              [n \in 1..Len(SeqOf(ids)) |->
                 newTask("readData", entryKey(preKey, IdSeq[SeqOf(ids)[n]]), Null, env)])
  /\ UNCHANGED <<env, stores, faults, fixVars>>

\* tasks.push(value ? writeData(value, key) : removeData(key))
setTask(value, key, e) ==
  IF Truthy(value) THEN newTask("writeData", key, value, e)
  ELSE newTask("removeData", key, value, e)

\* keys.set(data): data[category][id] is a value (kind "put") or null
StartSet(c, fa, ids, kinds) ==
  /\ CanStart(c) /\ Ready(fa)
  /\ Begin(c, "set", calls[fa].sid, fa, "all",
           [n \in 1..Len(SeqOf(ids)) |->
              LET id == SeqOf(ids)[n]
              IN setTask(IF kinds[id] = "put" THEN entryValue(c, id) ELSE Null,
                         entryKey(preKey, IdSeq[id]), env)])
  /\ UNCHANGED <<env, stores, faults, fixVars>>

\* saveCreds: () => writeData(creds, 'creds')
StartSaveCreds(c, fa) ==
  /\ CanStart(c) /\ Ready(fa)
  /\ Begin(c, "saveCreds", calls[fa].sid, fa, "all",
           <<newTask("writeData", credsKey, calls[fa].creds, env)>>)
  /\ UNCHANGED <<env, stores, faults, fixVars>>

\* The value a direct caller of saveKey passes.
saveKeyValue(c) == Obj(<<Num(c)>>)

\* saveKey(sessionId, keyJson), called directly
StartSaveKey(c, sessionId) ==
  /\ CanStart(c)
  /\ Begin(c, "saveKey", sessionId, 0, "all",
           <<newTask("saveKey", credsKey, saveKeyValue(c), env)>>)
  /\ UNCHANGED <<env, stores, faults, fixVars>>

Sessions1 == {sessionS1}

InitStores ==
  /\ session = {}
  /\ hash = [s \in Sessions |-> [k \in EntryKeys |-> Absent]]
  /\ folders = {}
  /\ files = [p \in Paths |-> Absent]
  /\ faults = 0

Init ==
  /\ env \in BOOLEAN
  /\ InitStores
  /\ calls = [c \in 1..MaxCalls |-> IdleCall]
  /\ active = MaxCalls
  /\ fixIn = <<>> /\ fixOut = <<>>

\* Initialization and the steps of the credentials record.
NextInit ==
  \/ \E c \in DOMAIN calls, s \in Sessions1 : StartInit(c, s)
  \/ \E c \in DOMAIN calls, f \in BOOLEAN : mkdir(c, f)
  \/ \E c \in DOMAIN calls, i \in 1..2, f \in BOOLEAN : keyExists(c, i, f)
  \/ \E c \in DOMAIN calls, i \in 1..2, f \in BOOLEAN : saveKeyCreate(c, i, f)
  \/ \E c \in DOMAIN calls, i \in 1..2, f \in BOOLEAN : getAuthKey(c, i, f)

\* saveCreds, the exported saveKey, and a save that finds the row present.
NextSave ==
  \/ \E c, fa \in DOMAIN calls : StartSaveCreds(c, fa)
  \/ \E c \in DOMAIN calls, s \in Sessions1 : StartSaveKey(c, s)
  \/ \E c \in DOMAIN calls, i \in 1..2, f \in BOOLEAN : saveKeyUpdate(c, i, f)

\* The calls and steps of the keyed entries.
NextKeys ==
  \/ \E c, fa \in DOMAIN calls, ids \in IdSets : StartGet(c, fa, ids)
  \/ \E c, fa \in DOMAIN calls, ids \in IdSets :
       \E kinds \in [ids -> {"put", "null"}] : StartSet(c, fa, ids, kinds)
  \/ \E c \in DOMAIN calls, i \in 1..MaxEntries, f \in BOOLEAN : hSet(c, i, f)
  \/ \E c \in DOMAIN calls, i \in 1..MaxEntries, f \in BOOLEAN : hGet(c, i, f)
  \/ \E c \in DOMAIN calls, i \in 1..MaxEntries, f \in BOOLEAN : hDelete(c, i, f)
  \/ \E c \in DOMAIN calls, i \in 1..MaxEntries, f \in BOOLEAN : writeFile(c, i, f)
  \/ \E c \in DOMAIN calls, i \in 1..MaxEntries, f \in BOOLEAN : fileExists(c, i, f)
  \/ \E c \in DOMAIN calls, i \in 1..MaxEntries, f \in BOOLEAN : readFile(c, i, f)
  \/ \E c \in DOMAIN calls, i \in 1..MaxEntries, f \in BOOLEAN : unlink(c, i, f)

Next == NextInit \/ NextSave \/ NextKeys

Spec == Init /\ [][Next]_vars

\* Credentials only: initializations, saveCreds and saveKey calls.
NextCreds == NextInit \/ NextSave

SpecCreds == Init /\ [][NextCreds]_vars

\* A caller that awaits each call before it makes the next one, on backends
\* that never fail.
InitSeq ==
  /\ env \in BOOLEAN
  /\ session = {}
  /\ hash = [s \in Sessions |-> [k \in EntryKeys |-> Absent]]
  /\ folders = {}
  /\ files = [p \in Paths |-> Absent]
  /\ faults = MaxFaults
  /\ calls = [c \in 1..MaxSeqCalls |-> IdleCall]
  /\ active = 1
  /\ fixIn = <<>> /\ fixOut = <<>>

NextSeq == NextInit \/ NextKeys

SpecSeq == InitSeq /\ [][NextSeq]_vars

(***************************************************************************)
(* keys.get and keys.set over both categories and over values of every     *)
(* kind a caller can pass, by a caller that awaits each call.              *)
(***************************************************************************)
\* A well-formed app-state-sync-key value: keyData and a fingerprint object.
syncValue(c, i) == Obj(<<Buf(<<Num(c), Num(i)>>), Obj(<<Num(i)>>)>>)
\* One whose fingerprint is a number.
badSyncValue(c, i) == Obj(<<Buf(<<Num(c), Num(i)>>), Num(i)>>)

Kinds == {"put", "bad", "zero", "empty", "null"}

\* const value = data[category][id]
dataValue(category, kind, c, i) ==
  CASE kind = "null" -> Null
    [] kind = "zero" -> Num(0)
    [] kind = "empty" -> Str(0)
    [] kind = "bad" -> badSyncValue(c, i)
    [] OTHER -> IF category = appStateSyncKey THEN syncValue(c, i) ELSE entryValue(c, i)

\* keys.get(type, ids) for either type
StartGetType(c, fa, type, ids) ==
  /\ CanStart(c) /\ Ready(fa)
  /\ BeginGet(c, calls[fa].sid, fa, type,
              [n \in 1..Len(SeqOf(ids)) |->
                 newTask("readData", entryKey(type, IdSeq[SeqOf(ids)[n]]), Null, env)])
  /\ UNCHANGED <<env, stores, faults, fixVars>>

\* keys.set({ [category]: { [id]: value } }), one entry of either category
StartSetData(c, fa, category, id, kind) ==
  /\ CanStart(c) /\ Ready(fa)
  /\ Begin(c, "set", calls[fa].sid, fa, "all",
           <<setTask(dataValue(category, kind, c, id), entryKey(category, IdSeq[id]), env)>>)
  /\ UNCHANGED <<env, stores, faults, fixVars>>

\* The backend requests of the keyed entries.
NextEntrySteps ==
  \/ \E c \in DOMAIN calls, i \in 1..MaxEntries, f \in BOOLEAN : hSet(c, i, f)
  \/ \E c \in DOMAIN calls, i \in 1..MaxEntries, f \in BOOLEAN : hGet(c, i, f)
  \/ \E c \in DOMAIN calls, i \in 1..MaxEntries, f \in BOOLEAN : hDelete(c, i, f)
  \/ \E c \in DOMAIN calls, i \in 1..MaxEntries, f \in BOOLEAN : writeFile(c, i, f)
  \/ \E c \in DOMAIN calls, i \in 1..MaxEntries, f \in BOOLEAN : fileExists(c, i, f)
  \/ \E c \in DOMAIN calls, i \in 1..MaxEntries, f \in BOOLEAN : readFile(c, i, f)
  \/ \E c \in DOMAIN calls, i \in 1..MaxEntries, f \in BOOLEAN : unlink(c, i, f)

InitValues ==
  /\ env \in BOOLEAN
  /\ InitStores
  /\ calls = [c \in 1..MaxValCalls |-> IdleCall]
  /\ active = 1
  /\ fixIn = <<>> /\ fixOut = <<>>

NextValues ==
  \/ NextInit
  \/ NextEntrySteps
  \/ \E c, fa \in DOMAIN calls, type \in {preKey, appStateSyncKey}, ids \in IdSets :
       StartGetType(c, fa, type, ids)
  \/ \E c, fa \in DOMAIN calls, category \in {preKey, appStateSyncKey} :
       \E id \in DOMAIN IdSeq, kind \in Kinds : StartSetData(c, fa, category, id, kind)

SpecValues == InitValues /\ [][NextValues]_vars

(***************************************************************************)
(* A process whose configuration changes while it runs: isRedisEnabled     *)
(* reads process.env on every call, and process.env can be assigned to.    *)
(* The caller awaits each call and the backends never fail.                *)
(***************************************************************************)
\* process.env.CACHE_REDIS_ENABLED is set to the other value.
setEnv ==
  /\ env' = ~env
  /\ UNCHANGED <<stores, calls, faults, fixVars>>

InitEnv ==
  /\ env \in BOOLEAN
  /\ session = {}
  /\ hash = [s \in Sessions |-> [k \in EntryKeys |-> Absent]]
  /\ folders = {}
  /\ files = [p \in Paths |-> Absent]
  /\ faults = MaxFaults
  /\ calls = [c \in 1..MaxEnvCalls |-> IdleCall]
  /\ active = 1
  /\ fixIn = <<>> /\ fixOut = <<>>

NextEnv == NextInit \/ NextKeys \/ setEnv

SpecEnv == InitEnv /\ [][NextEnv]_vars

(***************************************************************************)
(* The credential operations called one by one or together: the exported   *)
(* keyExists (inside saveKey), saveKey and getAuthKey (inside the          *)
(* initialization), and deleteAuthKey, which removeData('creds') calls.    *)
(***************************************************************************)
\* deleteAuthKey(sessionId)
StartDeleteAuthKey(c, sessionId) ==
  /\ CanStart(c)
  /\ Begin(c, "deleteAuthKey", sessionId, 0, "all",
           <<newTask("removeData", credsKey, Null, env)>>)
  /\ UNCHANGED <<env, stores, faults, fixVars>>

InitCredOps ==
  /\ env \in BOOLEAN
  /\ InitStores
  /\ calls = [c \in 1..MaxOpCalls |-> IdleCall]
  /\ active = MaxOpCalls
  /\ fixIn = <<>> /\ fixOut = <<>>

NextCredOps ==
  \/ NextCreds
  \/ \E c \in DOMAIN calls, s \in Sessions1 : StartDeleteAuthKey(c, s)
  \/ \E c \in DOMAIN calls, f \in BOOLEAN : deleteAuthKey(c, 1, f)

SpecCredOps == InitCredOps /\ [][NextCredOps]_vars

(***************************************************************************)
(* Initializations and keys.set calls alone, by a caller that awaits each   *)
(* call, on backends that can fail.  The tasks of one keys.set interleave. *)
(***************************************************************************)
InitSet ==
  /\ env \in BOOLEAN
  /\ InitStores
  /\ calls = [c \in 1..MaxOpCalls |-> IdleCall]
  /\ active = 1
  /\ fixIn = <<>> /\ fixOut = <<>>

NextSet ==
  \/ NextInit
  \/ \E c, fa \in DOMAIN calls, ids \in IdSets :
       \E kinds \in [ids -> {"put", "null"}] : StartSet(c, fa, ids, kinds)
  \/ \E c \in DOMAIN calls, i \in 1..MaxEntries, f \in BOOLEAN : hSet(c, i, f)
  \/ \E c \in DOMAIN calls, i \in 1..MaxEntries, f \in BOOLEAN : hDelete(c, i, f)
  \/ \E c \in DOMAIN calls, i \in 1..MaxEntries, f \in BOOLEAN : writeFile(c, i, f)
  \/ \E c \in DOMAIN calls, i \in 1..MaxEntries, f \in BOOLEAN : unlink(c, i, f)

SpecSet == InitSet /\ [][NextSet]_vars

(***************************************************************************)
(* Several sessions in one process: every facade operation on every        *)
(* session id, by a caller that awaits each call, on backends that never   *)
(* fail.  keys.get and keys.set take one entry of category 'pre-key'.      *)
(***************************************************************************)
InitTwo ==
  /\ env \in BOOLEAN
  /\ session = {}
  /\ hash = [s \in Sessions |-> [k \in EntryKeys |-> Absent]]
  /\ folders = {}
  /\ files = [p \in Paths |-> Absent]
  /\ faults = MaxFaults
  /\ calls = [c \in 1..MaxTwoCalls |-> IdleCall]
  /\ active = 1
  /\ fixIn = <<>> /\ fixOut = <<>>

NextTwo ==
  \/ \E c \in DOMAIN calls, s \in Sessions : StartInit(c, s)
  \/ \E c \in DOMAIN calls, f \in BOOLEAN : mkdir(c, f)
  \/ \E c \in DOMAIN calls, i \in 1..2, f \in BOOLEAN : keyExists(c, i, f)
  \/ \E c \in DOMAIN calls, i \in 1..2, f \in BOOLEAN : saveKeyCreate(c, i, f)
  \/ \E c \in DOMAIN calls, i \in 1..2, f \in BOOLEAN : saveKeyUpdate(c, i, f)
  \/ \E c \in DOMAIN calls, i \in 1..2, f \in BOOLEAN : getAuthKey(c, i, f)
  \/ \E c, fa \in DOMAIN calls : StartSaveCreds(c, fa)
  \/ \E c, fa \in DOMAIN calls, id \in DOMAIN IdSeq : StartGetType(c, fa, preKey, {id})
  \/ \E c, fa \in DOMAIN calls, id \in DOMAIN IdSeq, kind \in {"put", "null"} :
       StartSetData(c, fa, preKey, id, kind)
  \/ NextEntrySteps

SpecTwo == InitTwo /\ [][NextTwo]_vars

(***************************************************************************)
(* fixFileName alone, applied to two entry names `${category}-${id}` over  *)
(* the characters the claim names.                                         *)
(***************************************************************************)
Alphabet == {"/", ":", "-", "_", "a"}
Words(n) == UNION {[1..m -> Alphabet] : m \in 1..n}
Names == {entryKey(category, id) : category \in Words(1), id \in Words(MaxNameLen)}

InitFix ==
  /\ env = FALSE
  /\ InitStores
  /\ calls = <<>>
  /\ active = 0
  /\ fixIn \in Names \X Names
  /\ fixOut = <<>>

ApplyFix ==
  /\ fixOut = <<>>
  /\ fixOut' = <<fixFileName(fixIn[1]), fixFileName(fixIn[2])>>
  /\ UNCHANGED <<env, stores, calls, faults, active, fixIn>>

SpecFix == InitFix /\ [][ApplyFix]_vars

(***************************************************************************)
(* Properties.                                                             *)
(***************************************************************************)
Started == {c \in DOMAIN calls : calls[c].op # "idle"}
NoFault(call) ==
  call.pc # "fault" /\ \A i \in DOMAIN call.tasks : ~call.tasks[i].flt
\* The initialization called initAuthCreds and went on to writeData.
Synthesized(call) == call.op = "init" /\ Len(call.tasks) = 2
\* The call has inserted or updated the row of its session.
Wrote(call) == \E i \in DOMAIN call.tasks : call.tasks[i].br \in {"created", "updated"}
Resolved(call) == call.st = "ok" /\ AllDone(call)

\* C1: an initialization of a session without a record, met by no backend
\* error, returns non-null credentials and persists them, so that a second
\* initialization of the session, the next to touch the record, loads
\* credentials equal to the synthesized ones.
C1_FreshSessionLoadsEqual ==
  \A c, d \in Started :
    ( /\ Synthesized(calls[c]) /\ Resolved(calls[c]) /\ NoFault(calls[c])
      /\ calls[c].tasks[2].br = "created"
      /\ calls[d].op = "init" /\ calls[d].sid = calls[c].sid
      /\ c \in calls[d].prior
      /\ Resolved(calls[d]) /\ NoFault(calls[d])
      /\ \A x \in Started \ {c} : calls[x].sid = calls[c].sid => ~Wrote(calls[x]) )
    => /\ calls[c].creds # Null
       /\ calls[d].creds = calls[c].creds

\* C2: the table never holds two rows of one session id.
C2_AtMostOneRecord ==
  \A s \in Sessions : Cardinality(rowsOf(session, s)) <= 1

\* Two saves raced: one created the row, the other's create was refused.
C2_Witness ==
  \E c, d \in Started :
    /\ c # d /\ calls[c].sid = calls[d].sid
    /\ \E i \in DOMAIN calls[c].tasks : calls[c].tasks[i].br = "created"
    /\ \E i \in DOMAIN calls[d].tasks : calls[d].tasks[i].br = "notUnique"
    /\ Cardinality(rowsOf(session, calls[c].sid)) = 1

\* Calls c then d are two saveKey calls in sequence, met by no backend
\* error, and nothing else has written the row of their session.
TwoSaves(c, d) ==
  /\ calls[c].op = "saveKey" /\ calls[d].op = "saveKey"
  /\ calls[c].sid = calls[d].sid
  /\ c \in calls[d].prior
  /\ Resolved(calls[d])
  /\ NoFault(calls[c]) /\ NoFault(calls[d])
  /\ \A x \in Started \ {c, d} : calls[x].sid = calls[c].sid => ~Wrote(calls[x])

\* C3: of two saveKey calls in sequence on a session without a record, the
\* first creates the row and the second updates it; afterwards the session
\* has exactly one row, holding the second value.
C3_SequentialSaveKey ==
  \A c, d \in Started :
    TwoSaves(c, d)
    => /\ calls[c].tasks[1].br = "created"
       /\ calls[d].tasks[1].br = "updated"
       /\ rowsOf(session, calls[c].sid)
            = {[sessionId |-> calls[c].sid, creds |-> JSONstringify(saveKeyValue(d))]}
       /\ loaded(session, calls[c].sid) = saveKeyValue(d)

C3_Witness == \E c, d \in Started : TwoSaves(c, d)

\* The step is one of an initialization call.
InitStepOf(c) ==
  /\ calls'[c] # calls[c]
  /\ calls[c].op = "init" \/ calls'[c].op = "init"

\* C6: no step of an initialization replaces or deletes a row that exists.
C6_InitKeepsExistingRecord ==
  [][\A c \in DOMAIN calls :
       InitStepOf(c) /\ rowsOf(session, calls'[c].sid) # {}
       => rowsOf(session', calls'[c].sid) = rowsOf(session, calls'[c].sid)]_vars

\* C7: an initialization that synthesized credentials and resolved has left
\* a row for its session in the table.
C7_ReadyImpliesPersisted ==
  \A c \in Started :
    Synthesized(calls[c]) /\ Resolved(calls[c])
    => rowsOf(session, calls[c].sid) # {}

\* C9: fixFileName maps two distinct entry names to distinct file names.
C9_FixFileNameInjective ==
  fixOut # <<>> /\ fixIn[1] # fixIn[2] => fixOut[1] # fixOut[2]

\* Some other task writes or removes the entry `key` of session s, in a call
\* that neither finished before call w began nor began after call r finished.
Disturbed(w, i, r, key, fns) ==
  \E x \in Started : \E k \in DOMAIN calls[x].tasks :
    /\ <<x, k>> # <<w, i>>
    /\ calls[x].sid = calls[w].sid
    /\ calls[x].tasks[k].fn \in fns
    /\ calls[x].tasks[k].key = key
    /\ x \notin calls[w].prior
    /\ r \notin calls[x].prior

\* Task j of the keys.get call r read the entry that task i of the keys.set
\* call w had settled before, met by no backend error.
ReadAfter(w, i, r, j) ==
  /\ calls[w].op = "set" /\ calls[r].op = "get"
  /\ calls[w].sid = calls[r].sid
  /\ w \in calls[r].prior
  /\ calls[w].tasks[i].st = "ok"
  /\ calls[r].tasks[j].key = calls[w].tasks[i].key
  /\ calls[r].tasks[j].st = "ok"
  /\ ~calls[r].tasks[j].flt

\* C4: a keyed entry written with success reads back equal to the value
\* written, in cache mode and in filesystem mode, when no other write or
\* remove of that key happens in between.
C4_WriteThenRead ==
  \A w, r \in Started :
    \A i \in DOMAIN calls[w].tasks : \A j \in DOMAIN calls[r].tasks :
      ( /\ ReadAfter(w, i, r, j)
        /\ calls[w].tasks[i].fn = "writeData"
        /\ ~Disturbed(w, i, r, calls[w].tasks[i].key, {"writeData", "removeData"}) )
      => calls[r].tasks[j].out = calls[w].tasks[i].val

\* C5: an entry removed without an error reads back null when no write of
\* that key happens afterwards.
C5_DeleteThenRead ==
  \A w, r \in Started :
    \A i \in DOMAIN calls[w].tasks : \A j \in DOMAIN calls[r].tasks :
      ( /\ ReadAfter(w, i, r, j)
        /\ calls[w].tasks[i].fn = "removeData"
        /\ ~Disturbed(w, i, r, calls[w].tasks[i].key, {"writeData"}) )
      => calls[r].tasks[j].out = Null

\* What readData returns for the entry from the stores h and fi in mode e.
readable(h, fi, e, s, key) ==
  IF isRedisEnabled(e)
  THEN (IF Truthy(cacheHGet(h, s, key))
        THEN JSONparseR(JSONstringify(cacheHGet(h, s, key))) ELSE Null)
  ELSE (IF fi[localFile(s, key)] # Absent /\ CanParse(fi[localFile(s, key)])
        THEN JSONparseR(fi[localFile(s, key)]) ELSE Null)

\* C8: an initialization is rejected by a failing backend request only, never
\* by the folder of its session being there already, and no step of an
\* initialization changes what any keyed entry reads as.
C8_InitIdempotent ==
  /\ [](\A c \in Started :
          calls[c].op = "init" /\ calls[c].st = "err" => calls[c].pc = "fault")
  /\ [][\A c \in DOMAIN calls :
          InitStepOf(c)
          => \A s \in Sessions : \A key \in EntryKeys :
               readable(hash', files', env', s, key) = readable(hash, files, env, s, key)]_vars

\* A second initialization of a session has resolved after a first one and
\* a keys.set, and an entry of the session is stored.
C8_Witness ==
  \E c, d, w \in Started :
    /\ calls[c].op = "init" /\ calls[d].op = "init" /\ calls[w].op = "set"
    /\ calls[c].sid = calls[d].sid /\ calls[w].sid = calls[d].sid
    /\ c \in calls[w].prior /\ w \in calls[d].prior
    /\ Resolved(calls[d])
    /\ \E key \in EntryKeys : readable(hash, files, env, calls[d].sid, key) # Null

SetCalls == {c \in Started : calls[c].op = "set"}
GetCalls == {c \in Started : calls[c].op = "get"}

\* C11: keys.set rejects if and only if one of its writes or removals fails:
\* a backend error in a writeData or removeData task makes the task fail and
\* the call reject, a call none of whose tasks failed is never rejected, and
\* it has resolved once all of them are done.
C11_SetRejectsIffTaskFails ==
  \A c \in SetCalls :
    /\ \A i \in DOMAIN calls[c].tasks :
         calls[c].tasks[i].flt => calls[c].tasks[i].st = "err"
    /\ calls[c].st = "err" <=> AnyErr(calls[c])
    /\ AllDone(calls[c]) /\ ~AnyErr(calls[c]) => calls[c].st = "ok"

\* A keys.set of two entries was rejected by a backend error in one of them
\* while the other one was written.
C11_Witness ==
  \E c \in SetCalls : \E i, j \in DOMAIN calls[c].tasks :
    /\ calls[c].tasks[i].br = "fault" /\ calls[c].tasks[i].st = "err"
    /\ calls[c].tasks[j].st = "ok"
    /\ calls[c].st = "err"

\* C12: keys.get is never rejected: a failure while the value of one id is
\* obtained gives null for that id, and every other id of the call still
\* gets what readData returned for it.
C12_GetNeverRejects ==
  \A c \in GetCalls :
    /\ calls[c].st # "err"
    /\ \A i \in DOMAIN calls[c].tasks : calls[c].tasks[i].st # "err"

\* C13: keys.set writes every entry whose value is not null and removes only
\* the entries whose value is null.
C13_SetByPresence ==
  \A c \in SetCalls : \A i \in DOMAIN calls[c].tasks :
    /\ calls[c].tasks[i].val # Null => calls[c].tasks[i].fn = "writeData"
    /\ calls[c].tasks[i].fn = "removeData" => calls[c].tasks[i].val = Null

\* Task i of call c is the last write or removal of its entry: every other
\* one belongs to a call that had finished when c began.
LastOnKey(c, i) ==
  \A x \in SetCalls : \A k \in DOMAIN calls[x].tasks :
    ( /\ <<x, k>> # <<c, i>>
      /\ calls[x].sid = calls[c].sid
      /\ calls[x].tasks[k].key = calls[c].tasks[i].key )
    => x \in calls[c].prior

\* C14: an entry written while the cache is enabled has no file, and is in
\* the cache as long as it is not written or removed again; an entry written
\* while it is disabled is not in the cache, and is in its file as long as it
\* is not written or removed again; and every row of the relational table
\* holds credentials, never a keyed entry.
C14_BackendExclusive ==
  /\ \A c \in SetCalls : \A i \in DOMAIN calls[c].tasks :
       LET t == calls[c].tasks[i]
           file == localFile(calls[c].sid, t.key)
       IN /\ t.br = "hSet" =>
               /\ files[file] = Absent
               /\ LastOnKey(c, i) => hash[calls[c].sid][t.key] = toJSON(t.val)
          /\ t.br = "writeFile" =>
               /\ hash[calls[c].sid][t.key] = Absent
               /\ LastOnKey(c, i) => files[file] = JSONstringifyR(t.val)
  /\ \A r \in session :
       \E c \in Started : \E i \in DOMAIN calls[c].tasks :
         /\ calls[c].tasks[i].key = credsKey
         /\ calls[c].sid = r.sessionId
         /\ r.creds = JSONstringify(keyJson(calls[c].tasks[i]))

CacheServed(t) ==
  t.br \in {"hSet", "hGet", "hDelete", "notDeleted"} \/ t.pc \in {"hSet", "hGet", "hDelete"}
FileServed(t) ==
  \/ t.br \in {"writeFile", "noFile", "readFile", "unlink", "ENOENT"}
  \/ t.pc \in {"writeFile", "fileExists", "readFile", "unlink"}

\* C15: no two keyed-entry operations made through one facade are served
\* one by the cache and the other by the filesystem.
C15_OneBackendPerFacade ==
  \A c, d \in SetCalls \cup GetCalls :
    calls[c].fac = calls[d].fac
    => \A i \in DOMAIN calls[c].tasks : \A j \in DOMAIN calls[d].tasks :
         ~(CacheServed(calls[c].tasks[i]) /\ FileServed(calls[d].tasks[j]))

\* The tasks of the credentials record: saveKey, and readData, writeData and
\* removeData of 'creds'.
CredTask(t) == t.fn = "saveKey" \/ t.key = credsKey

\* C16: no credential operation raises on a backend error: a failed request
\* in keyExists counts as no row and saveKey goes on to create; a failed
\* request in getAuthKey or saveKey resolves the operation with null, one in
\* deleteAuthKey resolves it; no call of saveKey, saveCreds or deleteAuthKey
\* is ever rejected.
C16_CredentialOpsNeverRaise ==
  /\ [](\A c \in Started :
          /\ calls[c].op \in {"saveKey", "saveCreds", "deleteAuthKey"} => calls[c].st # "err"
          /\ \A i \in DOMAIN calls[c].tasks :
               CredTask(calls[c].tasks[i])
               => /\ calls[c].tasks[i].st # "err"
                  /\ calls[c].tasks[i].br = "fault"
                     => calls[c].tasks[i].st = "ok" /\ calls[c].tasks[i].out = Null)
  /\ [][\A c \in DOMAIN calls : \A i \in DOMAIN calls[c].tasks :
          At(c, i, "keyExists") /\ faults' # faults /\ calls'[c] # calls[c]
          => calls'[c].tasks[i].pc = "create" /\ calls'[c].tasks[i].st = "pending"]_vars

\* A deleteAuthKey whose delete request failed has resolved, after a saveKey
\* had created the row.
C16_Witness ==
  \E c, d \in Started :
    /\ calls[c].op = "deleteAuthKey" /\ calls[c].st = "ok"
    /\ calls[c].tasks[1].br = "fault"
    /\ calls[d].sid = calls[c].sid /\ Wrote(calls[d])
    /\ rowsOf(session, calls[c].sid) # {}

\* C17: in cache mode, a removal for which hDelete reports that no field was
\* removed fails, and the keys.set call it belongs to is rejected.
C17_NothingDeletedRejects ==
  \A c \in SetCalls : \A i \in DOMAIN calls[c].tasks :
    calls[c].tasks[i].br = "notDeleted"
    => calls[c].tasks[i].st = "err" /\ calls[c].st = "err"

\* A keys.set in cache mode asked to remove an entry that the cache does not
\* hold, and has been rejected.
C17_Witness ==
  \E c \in SetCalls : \E i \in DOMAIN calls[c].tasks :
    /\ env
    /\ calls[c].tasks[i].fn = "removeData"
    /\ calls[c].tasks[i].br = "notDeleted"
    /\ hash[calls[c].sid][calls[c].tasks[i].key] = Absent
    /\ calls[c].st = "err"

\* What the backends hold for a session: its row, its hash, its files.
stateOf(tbl, h, fi, sessionId) ==
  <<rowsOf(tbl, sessionId), h[sessionId],
    [key \in EntryKeys |-> fi[localFile(sessionId, key)]]>>

\* C18: no step of an operation of session S changes the credentials record
\* or a keyed entry of another session T, in any backend.
C18_SessionIsolation ==
  [][\A c \in DOMAIN calls :
       calls'[c] # calls[c]
       => \A T \in Sessions \ {calls'[c].sid} :
            stateOf(session', hash', files', T) = stateOf(session, hash, files, T)]_vars

\* C19: when a keys.set or keys.get call has settled, every write, removal
\* and read it started is done.
C19_BulkJoinsBeforeSettling ==
  \A c \in SetCalls \cup GetCalls :
    calls[c].st \in {"ok", "err"} => AllDone(calls[c])

\* The credentials a resolved initialization returned are the ones its
\* session's row holds: the row is what writeData stores for them, or they
\* are what readData loads from the row.
Agrees(call) ==
  \/ rowsOf(session, call.sid)
       = {[sessionId |-> call.sid, creds |-> JSONstringify(JSONstringifyR(call.creds))]}
  \/ rowsOf(session, call.sid) # {} /\ loaded(session, call.sid) = call.creds

\* C20: once two initializations of a session without a record, run at the
\* same time and met by no backend error, have both resolved, the state.creds
\* of each is what the one row of the session holds.
C20_ConcurrentInitAgree ==
  \A c, d \in Started :
    ( /\ c # d
      /\ calls[c].op = "init" /\ calls[d].op = "init"
      /\ calls[c].sid = calls[d].sid
      /\ c \notin calls[d].prior /\ d \notin calls[c].prior
      /\ Resolved(calls[c]) /\ Resolved(calls[d])
      /\ NoFault(calls[c]) /\ NoFault(calls[d])
      /\ \A x \in Started \ {c, d} : calls[x].sid = calls[c].sid => ~Wrote(calls[x]) )
    => Agrees(calls[c]) /\ Agrees(calls[d])

====
